---------------------------- MODULE Spec2Model ----------------------------
(***************************************************************************)
(* A model of src/poisson_trace_stats.py: the Polynomial-Poisson Predictor *)
(* (polynomial_rate_trend_predict), the Rolling Rate Extractor             *)
(* (rate_trace_extract), the Calibration Simulator                         *)
(* (simulate_cumulative_likelihood_sample) and the Likelihood Histogram    *)
(* Diagnostic (compute_histogram_entropy_poisson).                         *)
(*                                                                         *)
(* Conventions.                                                            *)
(*  - Python arrays are sequences; At and Slice take Python's 0-based      *)
(*    indices.                                                             *)
(*  - Real numbers that need not be integers (means, rates, ceilings) are  *)
(*    exact rationals <<num, den>> with den > 0, compared by cross         *)
(*    multiplication.  Times are integers.                                 *)
(*  - Python's `assert` raises AssertionError.  The value of err names     *)
(*    which assertion failed: InsufficientDataError for the length-versus- *)
(*    parameter-count assertions (lines 45 and 97), ShapeMismatchError for *)
(*    the equal-length assertions (lines 46 and 98).                       *)
(*  - The third-party solver (sklearn's PoissonRegressor) is not part of   *)
(*    the repository.  It is a deterministic function of what it is given; *)
(*    PoissonRegressorPredict stands for it, and the variable sd selects   *)
(*    which function it is.                                                *)
(***************************************************************************)
EXTENDS Integers, Sequences, FiniteSets, TLC

VARIABLES
    op,                  \* which function the caller invokes
    pc,                  \* "start", "loop" (inside rate_trace_extract's for), "done", "raised"
    args,                \* the caller's arguments (the caller's own arrays)
    sd,                  \* which function the solver is
    time_arr,            \* rate_trace_extract's local time_arr, once rebound at line 111
    count_arr,           \* rate_trace_extract's local count_arr, once rebound at line 112
    i_pt,                \* the for loop's index (0-based, as in the code)
    predicted_rate_arr,  \* line 101
    predicted_time_arr,  \* line 102
    calls,               \* the Predictor invocations made so far, in order
    fits,                \* the solver fits performed so far, in order
    err,                 \* the exception that ended the call, or NoError
    result,              \* the value returned, or None
    twin,                \* the outcome of the second call of a two-call scenario
    order,               \* the positions processed so far, when not i_pt's order
    rng                  \* the state of numpy's process-global random generator

vars == <<op, pc, args, sd, time_arr, count_arr, i_pt, predicted_rate_arr,
          predicted_time_arr, calls, fits, err, result, twin, order, rng>>

-----------------------------------------------------------------------------
(* Bounds and value domains *)

MaxLen == 4

CountValues == {0, 2}

Degrees == {0, 1, 2}

MaxIterValues == {5, 1000}

SolverSeeds == {0, 1}

Shifts == {1, 2}

PredictTimes == {1, 2}

BinCounts == {2, 3}

(* eps as <<numerator, denominator>>: a large pad; the default is added below *)
LargeEps == <<1, 4>>

(* The rate options a caller gives the simulator: none, a zero rate, two rates,
   one rate. *)
RateOptions == {<<>>, <<0>>, <<1, 3>>, <<2>>}

-----------------------------------------------------------------------------
(* Python values *)

(* Python's None.  Every array of the model has at least one element, so the
   empty sequence is free to stand for it. *)
None == <<>>

NoError == "NoError"

InsufficientDataError == "AssertionError: insufficient data"

ShapeMismatchError == "AssertionError: shape mismatch"

NegativeDegreeError == "AssertionError: negative degree"

BroadcastError == "ValueError: shape mismatch, cannot broadcast"

At(arr, i) == arr[i + 1]

Slice(arr, lo, hi) == SubSeq(arr, lo + 1, hi)

RECURSIVE SeqSum(_)
SeqSum(s) == IF s = <<>> THEN 0 ELSE s[1] + SeqSum(Tail(s))

RECURSIVE Pow(_, _)
Pow(b, e) == IF e = 0 THEN 1 ELSE b * Pow(b, e - 1)

-----------------------------------------------------------------------------
(* Exact rationals *)

Rat(n) == <<n, 1>>

RatLeq(a, b) == a[1] * b[2] <= b[1] * a[2]

RatScale(a, k) == <<a[1] * k, a[2]>>

RatMax(a, b) == IF RatLeq(a, b) THEN b ELSE a

RatMin(a, b) == IF RatLeq(a, b) THEN a ELSE b

(* np.sum where np.mean is meant *)
SumNotMean(arr) == <<SeqSum(arr), 1>>

(* np.mean of a non-empty array *)
Mean(arr) == <<SeqSum(arr), Len(arr)>>

(* A clip that forgets a_max *)
ClipBelowOnly(x, a_min, a_max) == RatMax(x, a_min)

(* np.clip(x, a_min, a_max) = minimum(a_max, maximum(x, a_min)) *)
Clip(x, a_min, a_max) == RatMin(RatMax(x, a_min), a_max)

-----------------------------------------------------------------------------
(* polynomial_rate_trend_predict, lines 20-69 *)

(* The values a fitted model may predict: below 0, inside and above any
   ceiling the model's inputs can produce. *)
FitValues ==
    LET top == CHOOSE c \in CountValues : \A d \in CountValues : d <= c
    IN  << <<-1, 1>>, <<1, 2>>, <<2, 1>>, <<10 * top + 1, 1>> >>

RECURSIVE WeightedSum(_)
WeightedSum(s) ==
    IF s = <<>> THEN 0 ELSE Len(s) * s[Len(s)] + WeightedSum(SubSeq(s, 1, Len(s) - 1))

(* Lines 56-59: column k of the design matrix is time_arr ** k, k = 1..degree
   (no column of ones). *)
DelayMat(t_arr, degree) ==
    [i \in 1..Len(t_arr) |-> [k \in 1..degree |-> Pow(t_arr[i], k)]]

(* Line 66: the powers 1..degree of predict_time. *)
PredictArr(predict_time, degree) == [k \in 1..degree |-> Pow(predict_time, k)]

(* Lines 62-67: PoissonRegressor(max_iter).fit(delay_mat, count_arr)
   .predict(predict_arr).  The solver is a deterministic function of the design
   matrix, the counts, the prediction row and the iteration cap; sd picks the
   function. *)
PoissonRegressorPredict(delay_mat, c_arr, predict_arr, max_iter, seed) ==
    LET rows == [i \in 1..Len(delay_mat) |-> SeqSum(delay_mat[i])]
        h    == WeightedSum(c_arr) + WeightedSum(rows) + 3 * SeqSum(predict_arr)
                + max_iter + seed
    IN  FitValues[(h % Len(FitValues)) + 1]

(* The outcome of a call: the exception raised (or NoError), the value returned
   (or None) and the solver fit performed (or None). *)
Raised(e) == [err |-> e, value |-> None, fit |-> None]

polynomial_rate_trend_predict(c_arr, t_arr, predict_time, max_rate, degree, max_iter, seed) ==
    IF ~(degree >= 0) THEN Raised(NegativeDegreeError)
    ELSE IF ~(Len(c_arr) > degree) THEN Raised(InsufficientDataError)
    ELSE IF ~(Len(c_arr) = Len(t_arr)) THEN Raised(ShapeMismatchError)
    ELSE IF degree = 0 THEN [err |-> NoError, value |-> Mean(c_arr), fit |-> None]
    ELSE LET delay_mat   == DelayMat(t_arr, degree)
             predict_arr == PredictArr(predict_time, degree)
             fitted      == PoissonRegressorPredict(delay_mat, c_arr, predict_arr,
                                                    max_iter, seed)
         IN  [err   |-> NoError,
              value |-> Clip(fitted, Rat(0), max_rate),
              fit   |-> [delay_mat |-> delay_mat, count_arr |-> c_arr,
                         predict_arr |-> predict_arr, max_iter |-> max_iter]]

(* Line 24 and line 26: the defaults of max_rate and poisson_fit_max_iter_count. *)
DefaultMaxRate == 10000

DefaultMaxIter == 1000

-----------------------------------------------------------------------------
(* rate_trace_extract, lines 73-141 *)

(* >= where > is meant *)
AtLeastAsMany(n, k) == n >= k

(* Lines 45 and 97: strictly more observations than parameters. *)
EnoughPoints(n, k) == n > k

(* Lines 97-99: the two assertions, in the code's order. *)
ExtractPrecondition(c_arr, t_arr, window) ==
    IF ~EnoughPoints(Len(c_arr), window) THEN InsufficientDataError
    ELSE IF ~(t_arr = None \/ Len(t_arr) = Len(c_arr)) THEN ShapeMismatchError
    ELSE NoError

(* Line 101: the length of both output arrays. *)
OutputLength(n, window) == n - window

(* Line 107: np.arange(len(count_arr)) *)
Arange(n) == [k \in 1..n |-> k - 1]

(* Lines 106-107 *)
TimesOrDefault(c_arr, t_arr) == IF t_arr = None THEN Arange(Len(c_arr)) ELSE t_arr

(* No sort: the arrays are taken in the caller's order. *)
CallerOrder(t_arr) == {[k \in 1..Len(t_arr) |-> k]}

(* Line 110: np.argsort(time_arr).  The order it gives equal times is not
   specified: every permutation that puts the times in ascending order is a
   possible result. *)
ArgSortPerms(t_arr) ==
    {p \in Permutations(1..Len(t_arr)) :
        \A k \in 1..(Len(t_arr) - 1) : t_arr[p[k]] <= t_arr[p[k + 1]]}

(* Lines 111-112: arr[i_temporal_order], a new array (indexing with an index
   array copies). *)
Take(arr, p) == [k \in 1..Len(arr) |-> arr[p[k]]]

(* Lines 125-126: rel_prior_time_arr = time_arr[lo:hi] is a view of time_arr
   (slicing does not copy), so rel_prior_time_arr -= v writes time_arr[lo:hi].
   The value is time_arr after the statement. *)
InPlaceSubtract(arr, lo, hi, v) ==
    [k \in 1..Len(arr) |-> IF lo < k /\ k <= hi THEN arr[k] - v ELSE arr[k]]

(* Line 127 *)
RelCurTime(t_arr, i) == At(t_arr, i) - At(t_arr, i - 1)

(* A ceiling that does not depend on the window *)
FixedMaxRate(prior_count_arr) == Rat(DefaultMaxRate)

(* Line 135: max_rate = np.mean(prior_count_arr) * 10 *)
WindowMaxRate(prior_count_arr) == RatScale(Mean(prior_count_arr), 10)

(* The time of the window's last point where the position's own is meant *)
WindowEndTime(t_arr, i) == At(t_arr, i - 1)

(* Line 139: the time reported for position i. *)
PredictedTime(t_arr, i) == At(t_arr, i)

(* Lines 130-136: the keyword arguments of the call; poisson_fit_max_iter_count
   is not among them, so the Predictor's default applies. *)
PredictorArgs(prior_count_arr, rel_prior_time_arr, rel_cur_time, degree, max_iter) ==
    [count_arr    |-> prior_count_arr,
     time_arr     |-> rel_prior_time_arr,
     predict_time |-> rel_cur_time,
     max_rate     |-> WindowMaxRate(prior_count_arr),
     degree       |-> degree,
     max_iter     |-> DefaultMaxIter]

(* The locals of rate_trace_extract once the arrays are sorted (lines 101-112). *)
ExtractSetup(c_arr, t_arr, window, p) ==
    [time_arr           |-> Take(TimesOrDefault(c_arr, t_arr), p),
     count_arr          |-> Take(c_arr, p),
     predicted_rate_arr |-> [k \in 1..OutputLength(Len(c_arr), window) |-> Rat(0)],
     predicted_time_arr |-> [k \in 1..OutputLength(Len(c_arr), window) |-> 0],
     calls              |-> <<>>,
     fits               |-> <<>>,
     err                |-> NoError]

(* count_arr[i-W+1 : i+1] where count_arr[i-W : i] is meant *)
CountsThroughCurrent(c_arr, i, window) == Slice(c_arr, i - window + 1, i + 1)

(* Line 116: prior_count_arr, the window_size counts before position i. *)
PriorCounts(c_arr, i, window) == Slice(c_arr, i - window, i)

(* The caller's array is the array written *)
WrittenThrough(caller_arr, local_arr) ==
    IF caller_arr = None THEN None ELSE local_arr

(* Lines 111 and 125-126: the caller's time array once line 126 has written
   local_arr.  time_arr[i_temporal_order] indexes with an index array, which
   gives a new array that shares no memory with the caller's; the slice of line
   125 is a view of that new array, so the write stays in it. *)
CallerArrayAfterWrite(caller_arr, local_arr) == caller_arr

(* Lines 116-139: one pass of the loop body at position i. *)
ExtractIterBody(L, i, window, degree, max_iter, seed) ==
    LET prior_count_arr    == PriorCounts(L.count_arr, i, window)
        time_arr1          == InPlaceSubtract(L.time_arr, i - window, i,
                                              At(L.time_arr, i - 1))
        rel_prior_time_arr == Slice(time_arr1, i - window, i)
        rel_cur_time       == RelCurTime(time_arr1, i)
        a                  == PredictorArgs(prior_count_arr, rel_prior_time_arr,
                                            rel_cur_time, degree, max_iter)
        r                  == polynomial_rate_trend_predict(
                                  a.count_arr, a.time_arr, a.predict_time,
                                  a.max_rate, a.degree, a.max_iter, seed)
    IN  IF r.err # NoError
        THEN [L EXCEPT !.time_arr = time_arr1,
                       !.calls = Append(@, a),
                       !.err = r.err]
        ELSE [L EXCEPT !.time_arr = time_arr1,
                       !.calls = Append(@, a),
                       !.fits = IF r.fit = None THEN @ ELSE Append(@, r.fit),
                       !.predicted_rate_arr[i - window + 1] = r.value,
                       !.predicted_time_arr[i - window + 1] = PredictedTime(time_arr1, i)]

RECURSIVE ExtractLoop(_, _, _, _, _, _)
ExtractLoop(L, i, window, degree, max_iter, seed) ==
    IF L.err # NoError \/ ~(i < Len(L.count_arr)) THEN L
    ELSE ExtractLoop(ExtractIterBody(L, i, window, degree, max_iter, seed),
                     i + 1, window, degree, max_iter, seed)

(* Line 141 *)
ExtractResult(L) == [times |-> L.predicted_time_arr, rates |-> L.predicted_rate_arr]

(* A whole call, with p the order np.argsort gives: the exception or the
   returned pair, and the Predictor invocations made. *)
rate_trace_extract(c_arr, t_arr, window, degree, max_iter, p, seed) ==
    LET e == ExtractPrecondition(c_arr, t_arr, window)
    IN  IF e # NoError THEN [err |-> e, result |-> None, calls |-> <<>>, fits |-> <<>>]
        ELSE LET L == ExtractLoop(ExtractSetup(c_arr, t_arr, window, p), window,
                                  window, degree, max_iter, seed)
             IN  [err    |-> L.err,
                  result |-> IF L.err = NoError THEN ExtractResult(L) ELSE None,
                  calls  |-> L.calls,
                  fits   |-> L.fits]

-----------------------------------------------------------------------------
(* compute_histogram_entropy_poisson, lines 185-208 *)

(* Line 189: eps = 1e-6, as 1 / EpsDen. *)
EpsDen == 1000000

EpsValues == {<<1, EpsDen>>, LargeEps}


(* Likelihood Samples are k / LikGrid, k in 0..LikGrid: the Poisson CDF is a
   real number in [0, 1], 0 and 1 included. *)
LikGrid == 2

(* Line 204: sp_st.poisson(rates).cdf(counts) broadcasts its two arrays: equal
   lengths pair up, a length-1 array is stretched to the other's length, any
   other pair of lengths is an error.  0 stands for the error. *)
BroadcastLen(n, m) ==
    IF n = m THEN n ELSE IF n = 1 THEN m ELSE IF m = 1 THEN n ELSE 0

(* Edges np.linspace(0 + eps, 1 - eps, bin_count + 1) where
   np.linspace(0 - eps, 1 + eps, bin_count + 1) is meant *)
BinIndexPaddedInward(a, bin_count, eps) ==
    ((a * eps[2] - eps[1] * LikGrid) * bin_count) \div (LikGrid * (eps[2] - 2 * eps[1]))

(* Line 205: the bin (0-based) np.histogram puts sample a / LikGrid in, over
   the edges np.linspace(0 - eps, 1 + eps, bin_count + 1), eps the rational
   eps[1] / eps[2]:  floor((a/LikGrid + eps) / ((1 + 2 eps) / bin_count)).
   \div rounds towards minus infinity, so a sample below the first edge gets
   bin -1; a sample is in no bin when its index is outside 0..bin_count-1. *)
BinIndex(a, bin_count, eps) ==
    ((a * eps[2] + eps[1] * LikGrid) * bin_count) \div (LikGrid * (eps[2] + 2 * eps[1]))

(* Line 205: bin_counts *)
Histogram(lik, bin_count, eps) ==
    [j \in 1..bin_count |->
        Cardinality({k \in 1..Len(lik) : BinIndex(lik[k], bin_count, eps) = j - 1})]

(* Every bin where only the bins with c > 0 are meant *)
EveryBin(bin_counts) == bin_counts

(* Line 206: the bins the sum runs over, [c for c in bin_counts if c > 0]; the
   statistic is the sum of log(c)/c over them. *)
RECURSIVE EntropyTerms(_)
EntropyTerms(bin_counts) ==
    IF bin_counts = <<>> THEN <<>>
    ELSE IF Head(bin_counts) > 0
         THEN <<Head(bin_counts)>> \o EntropyTerms(Tail(bin_counts))
         ELSE EntropyTerms(Tail(bin_counts))

(* The sign of -log(c)/c where the sign of log(c)/c is meant *)
MinusLogOverCountSign(c) == IF c = 1 THEN 0 ELSE -1

(* Lines 177 and 206: the sign of np.log(c)/c for a bin count c >= 1:
   np.log(1) is 0.0, and log(c) > 0 for c >= 2. *)
LogOverCountSign(c) == IF c = 1 THEN 0 ELSE 1

Undetermined == 2

(* Lines 177 and 206: the sign of the sum of log(c)/c over the given bin
   counts: 0 for a sum of zeros (np.sum([]) is 0.0 too), the sign of the terms
   when no two of them have opposite signs. *)
EntropySign(terms) ==
    LET signs == {LogOverCountSign(terms[k]) : k \in 1..Len(terms)}
    IN  IF signs \subseteq {0} THEN 0
        ELSE IF signs \subseteq {0, 1} THEN 1
        ELSE IF signs \subseteq {0, -1} THEN -1
        ELSE Undetermined

-----------------------------------------------------------------------------
(* simulate_cumulative_likelihood_sample, lines 147-179 *)

(* The process-global generator behind numpy.random (line 3) has RngPeriod
   states; each number drawn moves it to the next. *)
RngPeriod == 5

RngStates == 0..(RngPeriod - 1)

(* The generator's state after n draws. *)
Advance(state, n) == (state + n) % RngPeriod

(* The k-th number (k = 1, 2, ...) the generator gives from state. *)
Draw(state, k) == Advance(state, k - 1)

SimArgumentError == "AssertionError: simulator arguments"

(* Lines 167-169 *)
SimPrecondition(rate_option_arr, sample_count, entropy_bin_count) ==
    IF sample_count > 0 /\ entropy_bin_count > 1 /\ Len(rate_option_arr) > 0
    THEN NoError
    ELSE SimArgumentError

(* Line 171: npr.choice(rate_option_arr, replace=True, size=size), drawn from
   the global generator in the given state. *)
Choice(rate_option_arr, size, state) ==
    [k \in 1..size |->
        rate_option_arr[(Draw(state, k) % Len(rate_option_arr)) + 1]]

(* Line 172: sp_st.poisson(rate_arr).rvs(), one count per rate, drawn from the
   global generator (rvs is given no random_state).  A rate of 0 gives the
   count 0; a rate r > 0 gives a count in 0..2r. *)
PoissonRvs(rate_arr, state) ==
    [k \in 1..Len(rate_arr) |->
        IF rate_arr[k] = 0 THEN 0 ELSE Draw(state, k) % (2 * rate_arr[k] + 1)]

(* Lines 174 and 204: the Poisson CDF of a count under a rate, on the grid
   0..LikGrid: 1 under the rate 0, and growing with the count otherwise. *)
PoissonCdf(rate, count) ==
    IF rate = 0 THEN LikGrid ELSE (count * LikGrid) \div (2 * rate)

(* A whole call with the global generator in the given state: the exception or
   the returned pair (with the histogram behind the statistic), and the state
   the generator is left in. *)
simulate_cumulative_likelihood_sample(rate_option_arr, sample_count, entropy_bin_count, eps, state) ==
    LET e == SimPrecondition(rate_option_arr, sample_count, entropy_bin_count)
    IN  IF e # NoError THEN [err |-> e, result |-> None, rng |-> state]
        ELSE LET rate_arr == Choice(rate_option_arr, sample_count, state)
                 state1 == Advance(state, sample_count)
                 drawn_count_arr == PoissonRvs(rate_arr, state1)
                 state2 == Advance(state1, sample_count)
                 cumulative_likelihood_arr ==
                     [k \in 1..sample_count |->
                         PoissonCdf(rate_arr[k], drawn_count_arr[k])]
                 bin_counts == Histogram(cumulative_likelihood_arr,
                                         entropy_bin_count, eps)
             IN  [err    |-> NoError,
                  result |-> [cum_lkhd_arr  |-> cumulative_likelihood_arr,
                              bin_counts    |-> bin_counts,
                              entropy_terms |-> EntropyTerms(bin_counts)],
                  rng    |-> state2]

-----------------------------------------------------------------------------
(* The calls a caller can make *)

CountArrays(n) == [1..n -> CountValues]

(* The time arrays a caller passes: evenly spaced in order, reversed, unevenly
   spaced (in order and reversed), with equal times, and evenly spaced away
   from 0. *)
TimeArrays(n) ==
    {Arange(n),
     [k \in 1..n |-> n - k],
     [k \in 1..n |-> (k - 1) * (k - 1)],
     [k \in 1..n |-> (n - k) * (n - k)],
     [k \in 1..n |-> (k - 1) \div 2],
     [k \in 1..n |-> 2 * k + 1]}

(* Time arrays whose length differs from n. *)
OtherLengthTimes(n) == {Arange(m) : m \in (1..MaxLen) \ {n}}

(* Times relative to the last point: -(n-1), ..., -1, 0. *)
RelTimes(n) == [k \in 1..n |-> k - n]

MaxRates == {Rat(0), Rat(1), Rat(DefaultMaxRate)}

SeedsFor(degree) == IF degree = 0 THEN {0} ELSE SolverSeeds

NoCallYet ==
    /\ pc = "start"
    /\ time_arr = <<>>
    /\ count_arr = <<>>
    /\ i_pt = 0
    /\ predicted_rate_arr = <<>>
    /\ predicted_time_arr = <<>>
    /\ calls = <<>>
    /\ fits = <<>>
    /\ err = NoError
    /\ result = None
    /\ twin = None
    /\ order = <<>>

(* No call made yet, and the global random generator in one given state. *)
Idle ==
    /\ NoCallYet
    /\ rng = 0

InitExtract ==
    /\ op = "extract"
    /\ \E n \in 1..MaxLen :
         args \in [count_arr : CountArrays(n),
                   time_arr  : {None} \cup TimeArrays(n) \cup OtherLengthTimes(n),
                   window    : 1..MaxLen,
                   degree    : Degrees,
                   max_iter  : MaxIterValues]
    /\ sd \in SeedsFor(args.degree)
    /\ Idle

InitPredict ==
    /\ op = "predict"
    /\ \E n \in 1..MaxLen :
         args \in [count_arr    : CountArrays(n),
                   time_arr     : {Arange(m) : m \in 1..MaxLen} \cup {RelTimes(n)},
                   predict_time : PredictTimes,
                   max_rate     : MaxRates,
                   degree       : 0..MaxLen,
                   max_iter     : MaxIterValues]
    /\ sd \in SeedsFor(args.degree)
    /\ Idle

(* Two calls of rate_trace_extract: one with (counts, times), one with every
   time raised by args.shift. *)
InitShift ==
    /\ op = "shift"
    /\ \E n \in 2..MaxLen :
         args \in [count_arr : CountArrays(n),
                   time_arr  : TimeArrays(n),
                   window    : 1..(n - 1),
                   degree    : Degrees,
                   max_iter  : {DefaultMaxIter},
                   shift     : Shifts]
    /\ sd \in SeedsFor(args.degree)
    /\ Idle

(* Time arrays for the permuted calls: distinct times, unevenly spaced, latest
   first, and evenly spaced times away from 0; args.perm puts them in every
   other order. *)
PermuteTimes(n) ==
    {[k \in 1..n |-> (n - k) * (n - k)],
     [k \in 1..n |-> 2 * k + 1]}

(* Two calls of rate_trace_extract: one with (counts, times), one with the same
   pairs in the order args.perm. *)
InitPermute ==
    /\ op = "permute"
    /\ \E n \in 2..MaxLen :
         args \in [count_arr : CountArrays(n),
                   time_arr  : PermuteTimes(n),
                   window    : 1..(n - 1),
                   degree    : Degrees,
                   max_iter  : {DefaultMaxIter},
                   perm      : Permutations(1..n)]
    /\ sd = 0
    /\ Idle

(* A call of compute_histogram_entropy_poisson with rates of length rate_len
   and counts of length count_len. *)
InitDiag ==
    /\ op = "diag"
    /\ args \in [rate_len  : 1..MaxLen,
                 count_len : 1..MaxLen,
                 histogram_bin_count : BinCounts,
                 eps       : EpsValues]
    /\ sd = 0
    /\ Idle

(* Two calls of simulate_cumulative_likelihood_sample with the same arguments,
   the global generator being in any state before the first. *)
InitSim ==
    /\ op = "sim"
    /\ args \in [rate_option_arr   : RateOptions,
                 sample_count      : 0..MaxLen,
                 entropy_bin_count : {1} \cup BinCounts,
                 eps               : EpsValues]
    /\ sd = 0
    /\ NoCallYet
    /\ rng \in RngStates

(* A call of rate_trace_extract whose loop positions are processed in any
   order, each pass working on the arrays as the passes before it left them. *)
InitAnyOrder ==
    /\ op = "anyorder"
    /\ \E n \in 2..MaxLen :
         args \in [count_arr : CountArrays(n),
                   time_arr  : {None} \cup TimeArrays(n),
                   window    : 1..(n - 1),
                   degree    : Degrees,
                   max_iter  : {DefaultMaxIter}]
    /\ sd \in SeedsFor(args.degree)
    /\ Idle

(* Time arrays for the calls that differ in their counts: none given, and
   unevenly spaced with the latest first. *)
HistoryTimes(n) ==
    {None,
     [k \in 1..n |-> (n - k) * (n - k)]}

(* Two calls of rate_trace_extract with the same times and window, one with
   the counts count_arr and one with the counts other_count_arr. *)
InitHistory ==
    /\ op = "history"
    /\ \E n \in 2..MaxLen :
         args \in [count_arr       : CountArrays(n),
                   other_count_arr : CountArrays(n),
                   time_arr        : HistoryTimes(n),
                   window          : 1..(n - 1),
                   degree          : Degrees,
                   max_iter        : {DefaultMaxIter}]
    /\ sd \in SeedsFor(args.degree)
    /\ Idle

Init ==
    \/ InitExtract
    \/ InitPredict
    \/ InitShift
    \/ InitPermute
    \/ InitDiag
    \/ InitSim
    \/ InitAnyOrder
    \/ InitHistory

(* A direct call of polynomial_rate_trend_predict. *)
PredictCall ==
    /\ op = "predict"
    /\ pc = "start"
    /\ LET r == polynomial_rate_trend_predict(args.count_arr, args.time_arr,
                    args.predict_time, args.max_rate, args.degree, args.max_iter, sd)
       IN  /\ pc' = IF r.err = NoError THEN "done" ELSE "raised"
           /\ err' = r.err
           /\ result' = r.value
           /\ fits' = IF r.fit = None THEN <<>> ELSE <<r.fit>>
    /\ UNCHANGED <<op, args, sd, time_arr, count_arr, i_pt, predicted_rate_arr,
                   predicted_time_arr, calls, twin, order, rng>>

(* rate_trace_extract, lines 97-112: the assertions, the output arrays, the
   default times and the sort. *)
ExtractEnter ==
    /\ op = "extract"
    /\ pc = "start"
    /\ LET e == ExtractPrecondition(args.count_arr, args.time_arr, args.window)
       IN  IF e # NoError
           THEN /\ pc' = "raised"
                /\ err' = e
                /\ UNCHANGED <<time_arr, count_arr, i_pt, predicted_rate_arr,
                               predicted_time_arr>>
           ELSE \E p \in ArgSortPerms(TimesOrDefault(args.count_arr, args.time_arr)) :
                  LET L == ExtractSetup(args.count_arr, args.time_arr, args.window, p)
                  IN  /\ pc' = "loop"
                      /\ err' = NoError
                      /\ time_arr' = L.time_arr
                      /\ count_arr' = L.count_arr
                      /\ i_pt' = args.window
                      /\ predicted_rate_arr' = L.predicted_rate_arr
                      /\ predicted_time_arr' = L.predicted_time_arr
    /\ UNCHANGED <<op, args, sd, calls, fits, result, twin, order, rng>>

Locals ==
    [time_arr           |-> time_arr,
     count_arr          |-> count_arr,
     predicted_rate_arr |-> predicted_rate_arr,
     predicted_time_arr |-> predicted_time_arr,
     calls              |-> calls,
     fits               |-> fits,
     err                |-> err]

(* rate_trace_extract, lines 115-139: one pass of the for loop. *)
ExtractIter ==
    /\ op = "extract"
    /\ pc = "loop"
    /\ i_pt < Len(count_arr)
    /\ LET L == ExtractIterBody(Locals, i_pt, args.window, args.degree,
                                args.max_iter, sd)
       IN  /\ time_arr' = L.time_arr
           /\ predicted_rate_arr' = L.predicted_rate_arr
           /\ predicted_time_arr' = L.predicted_time_arr
           /\ calls' = L.calls
           /\ fits' = L.fits
           /\ err' = L.err
           /\ pc' = IF L.err = NoError THEN "loop" ELSE "raised"
           /\ i_pt' = IF L.err = NoError THEN i_pt + 1 ELSE i_pt
           /\ args' = [args EXCEPT
                         !.time_arr = CallerArrayAfterWrite(@, L.time_arr)]
    /\ UNCHANGED <<op, sd, count_arr, result, twin, order, rng>>

(* rate_trace_extract, line 141: the loop is over. *)
ExtractReturn ==
    /\ op = "extract"
    /\ pc = "loop"
    /\ ~(i_pt < Len(count_arr))
    /\ pc' = "done"
    /\ result' = ExtractResult(Locals)
    /\ UNCHANGED <<op, args, sd, time_arr, count_arr, i_pt, predicted_rate_arr,
                   predicted_time_arr, calls, fits, err, twin, order, rng>>

(* The first call's outcome goes to err, result, calls and fits, the second
   call's to twin. *)
BothCalls(r1, r2) ==
    /\ pc' = IF r1.err = NoError THEN "done" ELSE "raised"
    /\ err' = r1.err
    /\ result' = r1.result
    /\ calls' = r1.calls
    /\ fits' = r1.fits
    /\ twin' = r2
    /\ UNCHANGED <<op, args, sd, time_arr, count_arr, i_pt, predicted_rate_arr,
                   predicted_time_arr, order, rng>>

(* rate_trace_extract(counts, times) and rate_trace_extract(counts, times + C).
   Adding C to every time changes no comparison between two times, so the sort
   takes the same path and gives the same order p in both calls. *)
ShiftCall ==
    /\ op = "shift"
    /\ pc = "start"
    /\ \E p \in ArgSortPerms(args.time_arr) :
         BothCalls(
            rate_trace_extract(args.count_arr, args.time_arr, args.window,
                               args.degree, args.max_iter, p, sd),
            rate_trace_extract(args.count_arr,
                               [k \in 1..Len(args.time_arr) |-> args.time_arr[k] + args.shift],
                               args.window, args.degree, args.max_iter, p, sd))

(* rate_trace_extract(counts, times) and the same call with the (count, time)
   pairs in the order args.perm. *)
PermuteCall ==
    /\ op = "permute"
    /\ pc = "start"
    /\ \E p1 \in ArgSortPerms(args.time_arr) :
         \E p2 \in ArgSortPerms(Take(args.time_arr, args.perm)) :
            BothCalls(
               rate_trace_extract(args.count_arr, args.time_arr, args.window,
                                  args.degree, args.max_iter, p1, sd),
               rate_trace_extract(Take(args.count_arr, args.perm),
                                  Take(args.time_arr, args.perm),
                                  args.window, args.degree, args.max_iter, p2, sd))

(* compute_histogram_entropy_poisson, lines 204-208.  There is no check of the
   two lengths: the call fails only where the broadcast at line 204 does. *)
DiagCall ==
    /\ op = "diag"
    /\ pc = "start"
    /\ LET n == BroadcastLen(args.rate_len, args.count_len)
       IN  IF n = 0
           THEN /\ pc' = "raised"
                /\ err' = BroadcastError
                /\ result' = None
           ELSE \E cum_lkhd_arr \in [1..n -> 0..LikGrid] :
                  LET bin_counts == Histogram(cum_lkhd_arr, args.histogram_bin_count, args.eps)
                  IN  /\ pc' = "done"
                      /\ err' = NoError
                      /\ result' = [cum_lkhd_arr |-> cum_lkhd_arr,
                                     bin_counts   |-> bin_counts,
                                     entropy_terms |-> EntropyTerms(bin_counts)]
    /\ UNCHANGED <<op, args, sd, time_arr, count_arr, i_pt, predicted_rate_arr,
                   predicted_time_arr, calls, fits, twin, order, rng>>

(* rate_trace_extract, lines 97-112, for the loop run in any order.  twin is
   the outcome of the loop run in the code's order on the same sorted arrays. *)
AnyOrderEnter ==
    /\ op = "anyorder"
    /\ pc = "start"
    /\ \E p \in ArgSortPerms(TimesOrDefault(args.count_arr, args.time_arr)) :
         LET L == ExtractSetup(args.count_arr, args.time_arr, args.window, p)
         IN  /\ pc' = "loop"
             /\ time_arr' = L.time_arr
             /\ count_arr' = L.count_arr
             /\ predicted_rate_arr' = L.predicted_rate_arr
             /\ predicted_time_arr' = L.predicted_time_arr
             /\ twin' = rate_trace_extract(args.count_arr, args.time_arr,
                             args.window, args.degree, args.max_iter, p, sd)
    /\ UNCHANGED <<op, args, sd, i_pt, calls, fits, err, result, order, rng>>

(* Lines 116-139: the pass for a position not processed yet. *)
AnyOrderIter ==
    /\ op = "anyorder"
    /\ pc = "loop"
    /\ \E i \in args.window..(Len(count_arr) - 1) :
         /\ \A k \in 1..Len(order) : order[k] # i
         /\ LET L == ExtractIterBody(Locals, i, args.window, args.degree,
                                     args.max_iter, sd)
            IN  /\ time_arr' = L.time_arr
                /\ predicted_rate_arr' = L.predicted_rate_arr
                /\ predicted_time_arr' = L.predicted_time_arr
                /\ calls' = L.calls
                /\ fits' = L.fits
                /\ err' = L.err
                /\ pc' = IF L.err = NoError THEN "loop" ELSE "raised"
                /\ i_pt' = i
                /\ order' = Append(order, i)
    /\ UNCHANGED <<op, args, sd, count_arr, result, twin, rng>>

(* Line 141, once every position has been processed. *)
AnyOrderReturn ==
    /\ op = "anyorder"
    /\ pc = "loop"
    /\ Len(order) = Len(count_arr) - args.window
    /\ pc' = "done"
    /\ result' = ExtractResult(Locals)
    /\ UNCHANGED <<op, args, sd, time_arr, count_arr, i_pt, predicted_rate_arr,
                   predicted_time_arr, calls, fits, err, twin, order, rng>>

(* rate_trace_extract(counts, times) and rate_trace_extract(other counts,
   times).  The times are the same, so np.argsort gives the same order p in
   both calls; count_arr keeps the first call's sorted counts (line 112) and
   twin.count_arr the second call's. *)
HistoryCall ==
    /\ op = "history"
    /\ pc = "start"
    /\ \E p \in ArgSortPerms(TimesOrDefault(args.count_arr, args.time_arr)) :
         LET r1 == rate_trace_extract(args.count_arr, args.time_arr, args.window,
                                      args.degree, args.max_iter, p, sd)
             r2 == rate_trace_extract(args.other_count_arr, args.time_arr,
                                      args.window, args.degree, args.max_iter, p, sd)
         IN  /\ pc' = IF r1.err = NoError THEN "done" ELSE "raised"
             /\ err' = r1.err
             /\ result' = r1.result
             /\ calls' = r1.calls
             /\ fits' = r1.fits
             /\ count_arr' = Take(args.count_arr, p)
             /\ twin' = [err       |-> r2.err,
                         result    |-> r2.result,
                         calls     |-> r2.calls,
                         count_arr |-> Take(args.other_count_arr, p)]
    /\ UNCHANGED <<op, args, sd, time_arr, i_pt, predicted_rate_arr,
                   predicted_time_arr, order, rng>>

(* simulate_cumulative_likelihood_sample, lines 167-179: the first call. *)
SimCall ==
    /\ op = "sim"
    /\ pc = "start"
    /\ LET r == simulate_cumulative_likelihood_sample(args.rate_option_arr,
                    args.sample_count, args.entropy_bin_count, args.eps, rng)
       IN  /\ pc' = IF r.err = NoError THEN "called" ELSE "raised"
           /\ err' = r.err
           /\ result' = r.result
           /\ rng' = r.rng
    /\ UNCHANGED <<op, args, sd, time_arr, count_arr, i_pt, predicted_rate_arr,
                   predicted_time_arr, calls, fits, twin, order>>

(* Between the two calls other code of the process draws a number from the
   global generator. *)
OtherRandomUse ==
    /\ op = "sim"
    /\ pc = "called"
    /\ pc' = "between"
    /\ rng' = Advance(rng, 1)
    /\ UNCHANGED <<op, args, sd, time_arr, count_arr, i_pt, predicted_rate_arr,
                   predicted_time_arr, calls, fits, err, result, twin, order>>

(* The second call, with the same arguments. *)
SimCallAgain ==
    /\ op = "sim"
    /\ pc \in {"called", "between"}
    /\ LET r == simulate_cumulative_likelihood_sample(args.rate_option_arr,
                    args.sample_count, args.entropy_bin_count, args.eps, rng)
       IN  /\ pc' = "done"
           /\ twin' = [err |-> r.err, result |-> r.result]
           /\ rng' = r.rng
    /\ UNCHANGED <<op, args, sd, time_arr, count_arr, i_pt, predicted_rate_arr,
                   predicted_time_arr, calls, fits, err, result, order>>

Next ==
    \/ PredictCall
    \/ ExtractEnter
    \/ ExtractIter
    \/ ExtractReturn
    \/ ShiftCall
    \/ PermuteCall
    \/ DiagCall
    \/ SimCall
    \/ OtherRandomUse
    \/ SimCallAgain
    \/ AnyOrderEnter
    \/ AnyOrderIter
    \/ AnyOrderReturn
    \/ HistoryCall

Spec == Init /\ [][Next]_vars

NextExtract == ExtractEnter \/ ExtractIter \/ ExtractReturn

(* rate_trace_extract alone *)
SpecExtract == InitExtract /\ [][NextExtract]_vars

(* polynomial_rate_trend_predict alone *)
SpecPredict == InitPredict /\ [][PredictCall]_vars

NextCalls == PredictCall \/ ExtractEnter \/ ExtractIter \/ ExtractReturn

InitCalls == InitPredict \/ InitExtract

(* Single calls of the Predictor and of the Extractor *)
SpecCalls == InitCalls /\ [][NextCalls]_vars

(* The Extractor on a time series and on the same series shifted *)
SpecShift == InitShift /\ [][ShiftCall]_vars

(* The Extractor on a series and on a permutation of it *)
SpecPermute == InitPermute /\ [][PermuteCall]_vars

NextAnyOrder == AnyOrderEnter \/ AnyOrderIter \/ AnyOrderReturn

(* The Extractor's loop with its positions processed in any order *)
SpecAnyOrder == InitAnyOrder /\ [][NextAnyOrder]_vars

(* The Extractor on two count series with the same times *)
SpecHistory == InitHistory /\ [][HistoryCall]_vars

NextSim == SimCall \/ OtherRandomUse \/ SimCallAgain

(* The Calibration Simulator called twice *)
SpecSim == InitSim /\ [][NextSim]_vars

InitHist == InitDiag \/ InitSim

NextHist == DiagCall \/ SimCall \/ OtherRandomUse \/ SimCallAgain

(* The two functions that build the likelihood histogram *)
SpecHist == InitHist /\ [][NextHist]_vars

-----------------------------------------------------------------------------
(* Properties *)

RECURSIVE InsertAscending(_, _)
InsertAscending(s, x) ==
    IF s = <<>> THEN <<x>>
    ELSE IF x <= Head(s) THEN <<x>> \o s
    ELSE <<Head(s)>> \o InsertAscending(Tail(s), x)

RECURSIVE Ascending(_)
Ascending(s) ==
    IF s = <<>> THEN <<>> ELSE InsertAscending(Ascending(Tail(s)), Head(s))

(* The caller's times (0, 1, 2, ... when none are given), and the same in
   ascending order. *)
CallerTimes == TimesOrDefault(args.count_arr, args.time_arr)

SortedTimes == Ascending(CallerTimes)

NCounts == Len(args.count_arr)

TimesFit == args.time_arr = None \/ Len(args.time_arr) = NCounts

Ended == pc \in {"done", "raised"}

Distinct(s) == \A j, k \in 1..Len(s) : j # k => s[j] # s[k]

(* C1: at every window position i the Predictor is given the window times
   sorted_times[i-W .. i-1] - sorted_times[i-1] and the target time
   sorted_times[i] - sorted_times[i-1], sorted_times being the caller's
   original times in ascending order.  (The k-th invocation is position
   i = W + k - 1.) *)
C1_WindowTimesRecentred ==
    (op = "extract" /\ pc # "start") =>
        \A k \in 1..Len(calls) :
            /\ calls[k].time_arr =
                 [j \in 1..args.window |->
                    SortedTimes[k - 1 + j] - SortedTimes[k - 1 + args.window]]
            /\ calls[k].predict_time =
                 SortedTimes[k + args.window] - SortedTimes[k - 1 + args.window]

(* C2: adding a constant C to every time leaves every Predictor invocation
   (window counts, window times, target time, max_rate) and hence every rate
   unchanged; only the returned times change, each by exactly C. *)
C2_ShiftInvariance ==
    (op = "shift" /\ Ended) =>
        /\ twin.err = err
        /\ twin.calls = calls
        /\ err = NoError =>
             /\ twin.result.rates = result.rates
             /\ twin.result.times =
                  [k \in 1..Len(result.times) |-> result.times[k] + args.shift]

(* C3: when the times are pairwise distinct, the call on any permutation of
   the (count, time) pairs has the outcome of the call on the pairs as given:
   the same returned times and rates (or the same exception) and the same
   sequence of Predictor invocations. *)
C3_PermutationInvariance ==
    (op = "permute" /\ Ended /\ Distinct(args.time_arr)) =>
        /\ twin.err = err
        /\ twin.result = result
        /\ twin.calls = calls
        /\ twin.fits = fits

C3_Witness ==
    /\ op = "permute"
    /\ pc = "done"
    /\ Distinct(args.time_arr)
    /\ Take(args.time_arr, args.perm) # args.time_arr
    /\ args.degree >= 1
    /\ Len(result.rates) >= 2
    /\ \E k \in 1..Len(result.rates) : result.rates[k][1] > 0
    /\ Take(args.count_arr, args.perm) # args.count_arr

(* What C4 says of a call that has ended: it returned N - W (time, rate)
   pairs, the k-th time being the (W+k)-th smallest input time (0-indexed), so
   the returned times ascend. *)
ReturnsTrace ==
    /\ pc = "done"
    /\ Len(result.times) = NCounts - args.window
    /\ Len(result.rates) = NCounts - args.window
    /\ \A k \in 1..(NCounts - args.window) :
          result.times[k] = SortedTimes[args.window + k]
    /\ \A k \in 1..(NCounts - args.window - 1) :
          result.times[k] <= result.times[k + 1]

(* C4 as stated: for any counts of length N and window W with 1 <= W < N
   (times, when given, of length N) the call returns exactly N - W pairs, the
   k-th time being the (W+k)-th smallest input time. *)
C4_AnyWindowReturnsTrace ==
    (op = "extract" /\ Ended /\ TimesFit
        /\ 1 <= args.window /\ args.window < NCounts) => ReturnsTrace

(* C4 amended: the same, for calls whose polynomial degree is below the
   window size W; with degree >= W the Predictor rejects the first window and
   nothing is returned. *)
C4_ReturnsTrace ==
    (op = "extract" /\ Ended /\ TimesFit
        /\ 1 <= args.window /\ args.window < NCounts
        /\ args.degree < args.window) => ReturnsTrace

C4_Witness ==
    /\ op = "extract"
    /\ pc = "done"
    /\ args.time_arr # None
    /\ CallerTimes # SortedTimes
    /\ Len(result.times) >= 2
    /\ result.times[1] < result.times[2]

(* C5: polynomial_rate_trend_predict with len(counts) <= degree, and
   rate_trace_extract with window_size >= len(counts), end with
   InsufficientDataError, return nothing, and have performed no fit. *)
C5_InsufficientDataRejected ==
    /\ (op = "predict" /\ pc # "start" /\ NCounts <= args.degree) =>
          /\ pc = "raised"
          /\ err = InsufficientDataError
          /\ result = None
          /\ fits = <<>>
    /\ (op = "extract" /\ pc # "start" /\ args.window >= NCounts) =>
          /\ pc = "raised"
          /\ err = InsufficientDataError
          /\ result = None
          /\ calls = <<>>
          /\ fits = <<>>

C5_Witness ==
    /\ op = "predict"
    /\ pc = "raised"
    /\ NCounts = 3
    /\ args.degree = 3
    /\ Len(args.time_arr) = 3
    /\ err = InsufficientDataError

(* C6: whenever the paired sequences differ in length the call fails and
   returns no value: the Predictor (counts, times), the Extractor (counts, a
   given times array) and the Diagnostic (rates, counts), length 1 against
   length n included.  (An exception of either assertion, or of the broadcast,
   counts as the failure.) *)
C6_UnequalLengthsRejected ==
    /\ (op \in {"predict", "extract"} /\ pc # "start"
          /\ args.time_arr # None /\ Len(args.time_arr) # NCounts) =>
          /\ pc = "raised"
          /\ err \in {ShapeMismatchError, InsufficientDataError}
          /\ result = None
    /\ (op = "diag" /\ pc # "start" /\ args.rate_len # args.count_len) =>
          /\ pc = "raised"
          /\ err \in {ShapeMismatchError, BroadcastError}
          /\ result = None

(* C7: with degree 0 (and times as many as counts) the Predictor performs no
   fit and returns exactly sum(counts) / len(counts), whatever the times, the
   target time and the iteration cap; and with degree 0 every rate the
   Extractor has emitted is the mean of that position's W preceding counts in
   time order. *)
C7_DegreeZeroIsMean ==
    /\ (op = "predict" /\ pc # "start" /\ args.degree = 0
          /\ Len(args.time_arr) = NCounts) =>
          /\ pc = "done"
          /\ fits = <<>>
          /\ result[1] * NCounts = SeqSum(args.count_arr) * result[2]
    /\ (op = "extract" /\ pc \in {"loop", "done"} /\ args.degree = 0) =>
          /\ fits = <<>>
          /\ \A k \in 1..Len(calls) :
                predicted_rate_arr[k][1] * args.window =
                   SeqSum(SubSeq(count_arr, k, k + args.window - 1))
                      * predicted_rate_arr[k][2]

C7_Witness ==
    /\ op = "predict"
    /\ pc = "done"
    /\ args.degree = 0
    /\ NCounts = 3
    /\ SeqSum(args.count_arr) = 2
    /\ args.time_arr # Arange(3)
    /\ ~RatLeq(result, args.max_rate)

InRange(x, lo, hi) == RatLeq(lo, x) /\ RatLeq(x, hi)

(* C8 as stated: every call of the Predictor that returns, of any
   degree >= 0 and any max_rate >= 0, returns a rate in [0, max_rate]. *)
C8_AnyDegreeClamped ==
    (op = "predict" /\ pc = "done") => InRange(result, Rat(0), args.max_rate)

(* C8 amended: every call of the Predictor of degree >= 1 that returns,
   whatever max_rate >= 0 and whatever the solver predicts, returns a rate in
   [0, max_rate]; with degree 0 the mean of the counts is returned as it is. *)
C8_FittedRateClamped ==
    (op = "predict" /\ pc = "done" /\ args.degree >= 1) =>
        InRange(result, Rat(0), args.max_rate)

(* The value the solver predicted in the one fit of a direct call. *)
FittedValue ==
    PoissonRegressorPredict(fits[1].delay_mat, fits[1].count_arr,
                            fits[1].predict_arr, fits[1].max_iter, sd)

C8_Witness ==
    /\ op = "predict"
    /\ pc = "done"
    /\ args.degree >= 1
    /\ Len(fits) = 1
    /\ args.max_rate = Rat(1)
    /\ ~RatLeq(FittedValue, args.max_rate)
    /\ result = args.max_rate

(* The counts of the k-th window in time order. *)
WindowCounts(k) == SubSeq(count_arr, k, k + args.window - 1)

(* C9: at every window position the Predictor is given
   max_rate = 10 x mean(that window's W counts); every emitted rate r is
   0 <= r <= 10 x mean(window counts), and a window of zeros gives rate 0. *)
C9_AdaptiveCeiling ==
    (op = "extract" /\ pc # "start") =>
        /\ \A k \in 1..Len(calls) :
              /\ calls[k].count_arr = WindowCounts(k)
              /\ calls[k].max_rate[1] * args.window =
                    10 * SeqSum(WindowCounts(k)) * calls[k].max_rate[2]
        /\ \A k \in 1..(i_pt - args.window) :
              /\ InRange(predicted_rate_arr[k], Rat(0),
                         <<10 * SeqSum(WindowCounts(k)), args.window>>)
              /\ SeqSum(WindowCounts(k)) = 0 => predicted_rate_arr[k][1] = 0

C9_Witness ==
    /\ op = "extract"
    /\ pc = "done"
    /\ args.degree >= 1
    /\ Len(calls) >= 2
    /\ SeqSum(WindowCounts(1)) = 0
    /\ predicted_rate_arr[1][1] = 0
    /\ SeqSum(WindowCounts(2)) > 0
    /\ predicted_rate_arr[2] = <<10 * SeqSum(WindowCounts(2)), args.window>>

(* C10: the max_iterations m given to rate_trace_extract is the iteration cap
   of every solver fit it makes: each per-window fit runs with cap m. *)
C10_IterationCapPassedOn ==
    (op = "extract" /\ pc # "start") =>
        \A k \in 1..Len(fits) : fits[k].max_iter = args.max_iter


-----------------------------------------------------------------------------
(* The likelihood histogram and its statistic *)

(* A call that builds the histogram has returned; result holds what it built.
   (Of the simulator's two calls, result is the first.) *)
HistogramBuilt ==
    \/ op = "diag" /\ pc = "done"
    \/ op = "sim" /\ pc \in {"called", "between", "done"}

(* The number of rates and counts given, or of samples asked for. *)
SamplesGiven == IF op = "diag" THEN args.count_len ELSE args.sample_count

BinsAsked ==
    IF op = "diag" THEN args.histogram_bin_count ELSE args.entropy_bin_count

EqualLengths == op = "diag" => args.rate_len = args.count_len

(* C11: for rates and counts of equal length n (or n simulated samples), any
   bin_count >= 2 and eps > 0, the histogram has bin_count bins whose counts
   are non-negative integers that sum to n: every sample, one at exactly 0 or
   exactly 1 included, is counted in exactly one bin. *)
C11_EverySampleInOneBin ==
    (HistogramBuilt /\ EqualLengths) =>
        /\ Len(result.cum_lkhd_arr) = SamplesGiven
        /\ Len(result.bin_counts) = BinsAsked
        /\ \A j \in 1..BinsAsked : result.bin_counts[j] \in Nat
        /\ SeqSum(result.bin_counts) = SamplesGiven
        /\ \A k \in 1..SamplesGiven :
              BinIndex(result.cum_lkhd_arr[k], BinsAsked, args.eps) \in 0..(BinsAsked - 1)

C11_Witness ==
    /\ op = "diag"
    /\ pc = "done"
    /\ args.rate_len = args.count_len
    /\ \E k \in 1..args.count_len : result.cum_lkhd_arr[k] = 0
    /\ \E k \in 1..args.count_len : result.cum_lkhd_arr[k] = LikGrid

(* C12: in both functions the statistic is the sum of log(c)/c over exactly
   the bins with c > 0, in bin order; every term has c >= 1, so the sum is a
   finite number and the call raises nothing, also when all samples are in a
   single bin. *)
C12_ZeroBinsExcluded ==
    HistogramBuilt =>
        /\ err = NoError
        /\ result.entropy_terms = SelectSeq(result.bin_counts, LAMBDA c : c > 0)
        /\ \A k \in 1..Len(result.entropy_terms) : result.entropy_terms[k] >= 1
        /\ EntropySign(result.entropy_terms) # Undetermined

C12_Witness ==
    /\ HistogramBuilt
    /\ EqualLengths
    /\ SamplesGiven >= 2
    /\ result.entropy_terms = <<SamplesGiven>>
    /\ \E j \in 1..BinsAsked : result.bin_counts[j] = 0

(* C13, as stated: the statistic is never positive, for every histogram. *)
C13_NeverPositive ==
    HistogramBuilt => EntropySign(result.entropy_terms) \in {-1, 0}

(* C13, amended: the statistic is never negative, for every histogram; it is
   positive when some bin holds two or more samples and 0 otherwise. *)
C13_NeverNegative ==
    HistogramBuilt =>
        /\ EntropySign(result.entropy_terms) \in {0, 1}
        /\ EntropySign(result.entropy_terms) = 1 <=>
              \E j \in 1..BinsAsked : result.bin_counts[j] >= 2

C13_Witness ==
    /\ HistogramBuilt
    /\ EqualLengths
    /\ \E j \in 1..BinsAsked : result.bin_counts[j] >= 2
    /\ \E j \in 1..BinsAsked : result.bin_counts[j] = 1

(* C14: two calls of the simulator with equal arguments return identical
   Likelihood Samples and Entropy Statistic, whatever the process-global random
   state and whatever is drawn from it between the calls. *)
C14_SameArgumentsSameOutput ==
    (op = "sim" /\ pc = "done") =>
        /\ twin.err = err
        /\ twin.result = result


-----------------------------------------------------------------------------
(* The Extractor's positions *)

(* C15: the Fit Window (counts, relative times), target time and max_rate
   handed to the Predictor for position i, and the rate emitted for it, are
   those of the loop run in the code's order, whatever order the positions are
   processed in and whichever other positions have been processed. *)
C15_PositionsIndependent ==
    (op = "anyorder" /\ pc # "start" /\ twin.err = NoError) =>
        /\ \A k \in 1..Len(calls) :
              calls[k] = twin.calls[order[k] - args.window + 1]
        /\ pc = "done" => result.rates = twin.result.rates

(* The 0-based positions that get a rate. *)
Positions == args.window..(NCounts - 1)

(* The two calls' sorted counts agree over the window of position i. *)
SameWindow(i) ==
    Slice(count_arr, i - args.window, i) = Slice(twin.count_arr, i - args.window, i)

(* C16: with the times fixed, the rate emitted for sorted position i is
   determined by the W counts at sorted positions i-W .. i-1: two count series
   that agree there get the same Predictor invocation and the same rate at i,
   whatever their counts at i, later, or before i-W; and every window consists
   of input counts, never of emitted rates. *)
C16_PriorHistoryOnly ==
    (op = "history" /\ Ended) =>
        /\ twin.err = err
        /\ \A k \in 1..Len(calls) :
              calls[k].count_arr = Slice(count_arr, k - 1, k - 1 + args.window)
        /\ err = NoError =>
              \A i \in Positions :
                  SameWindow(i) =>
                      /\ calls[i - args.window + 1] = twin.calls[i - args.window + 1]
                      /\ result.rates[i - args.window + 1] =
                            twin.result.rates[i - args.window + 1]

C16_Witness ==
    /\ op = "history"
    /\ pc = "done"
    /\ args.degree >= 1
    /\ \E i \in Positions :
          /\ SameWindow(i)
          /\ At(count_arr, i) # At(twin.count_arr, i)
          /\ i > args.window
          /\ At(count_arr, i - args.window - 1) # At(twin.count_arr, i - args.window - 1)
          /\ result.rates[i - args.window + 1][1] > 0

(* C17: a call of rate_trace_extract, successful or failing, never changes the
   caller's counts array or the caller's times array: at every step the
   arguments keep their values, in their order. *)
C17_ArgumentsUnchanged == [][args' = args]_vars

C17_Witness ==
    /\ op = "extract"
    /\ pc = "done"
    /\ args.time_arr # None
    /\ args.time_arr # SortedTimes
    /\ time_arr # SortedTimes

=============================================================================
